---- MODULE Spec2Model ----
(***************************************************************************)
(* The session broker of src/Backend/gateway.js: the Connection Registry   *)
(* (connections), the Session Table (sessions), the Requester Queue        *)
(* (waitingClients), the Provider Pool (availableWorkers) and the pending  *)
(* reclaim timers, driven by the socket.io events of the gateway.  Every   *)
(* handler runs to completion (single-threaded event loop), so each is one *)
(* action.                                                                 *)
(***************************************************************************)
EXTENDS Integers, Sequences, FiniteSets, TLC

\* ---------------------------------------------------------------- bounds
\* The longest Pool, Queue and list of pending timers explored: an event that
\* would grow one of them further is not taken.  SpecCore runs the matching
\* and teardown events under MaxPool and MaxQueue; Spec adds the relayed
\* events, which read neither the Pool nor the Queue, under RelayMaxPool and
\* RelayMaxQueue.
MaxPool == 3
MaxQueue == 2
MaxTimers == 1
RelayMaxPool == 1
RelayMaxQueue == 1

\* The peers.  A socket id is never reused: a peer that reconnects is a new
\* socket.  The two populations are disjoint: providers
\* (remote-browser-app/worker.js) emit register-worker and browser-event,
\* requesters (Frontend/src/App.jsx) emit register-client, request-session,
\* browser-event and stop-session; either may emit signal and may repeat any
\* of its events at any time.
WorkerSockets == {"w1", "w2"}
ClientSockets == {"c1", "c2"}
Sockets == WorkerSockets \cup ClientSockets

\* Values Math.random().toString(36).substring(7) may return; nothing in the
\* code keeps two calls from returning the same token.  The tokens are taken
\* non-empty, so that a sessionId once set is truthy (substring(7) is empty
\* only when the base-36 expansion has fewer than six digits, as for 0.5).
SessionIds == {"s1", "s2"}
\* The argument of request-session, and the payload of signal/browser-event.
Configs == {"urlA", "urlB"}
Payloads == {"p", "q"}

NoSid == "unset"
NoStatus == "undefined"
NoData == "undefined"
NoSocket == "null"

VARIABLES
  socketState,       \* socket.io lifecycle of each peer: new, open, closed
  connections,       \* Map socket.id -> { type, status, sessionId }
  sessions,          \* Map sessionId -> { clientSocket, workerSocket }
  waitingClients,    \* array of client sockets
  availableWorkers,  \* array of worker sockets
  timers,            \* pending setTimeout callbacks, each holding session.workerSocket
  emitted,           \* the emit() calls of the last handler, in order
  lastEvent,         \* the event the last handler ran for
  cap                \* the bounds of this run on the Pool, the Queue and the timers

vars == <<socketState, connections, sessions, waitingClients, availableWorkers,
          timers, emitted, lastEvent, cap>>

\* ------------------------------------------------------------- helpers
WorkerConn == [type |-> "worker", status |-> "idle", sessionId |-> NoSid]
ClientConn == [type |-> "client", status |-> NoStatus, sessionId |-> NoSid]

\* Map.prototype.has / set / delete, a Map being a function on its keys.
Has(map, key) == key \in DOMAIN map
MapSet(map, key, value) == [k \in DOMAIN map \cup {key} |-> IF k = key THEN value ELSE map[k]]
MapDelete(map, key) == [k \in DOMAIN map \ {key} |-> map[k]]
EmptyMap == [k \in {} |-> NoData]

Msg(to, event, data) == [to |-> to, event |-> event, data |-> data]
Event(name, s, data) == [name |-> name, socket |-> s, data |-> data]

\* Array.prototype.indexOf: the first index holding x, 0 when there is none.
IndexOf(seq, x) ==
  IF \E i \in 1..Len(seq) : seq[i] = x
  THEN CHOOSE i \in 1..Len(seq) : seq[i] = x /\ \A j \in 1..(i - 1) : seq[j] # x
  ELSE 0

\* splice(idx, 1)
Splice(seq, idx) == [i \in 1..(Len(seq) - 1) |-> IF i < idx THEN seq[i] ELSE seq[i + 1]]

\* idx = arr.indexOf(x); if (idx > -1) arr.splice(idx, 1)
RemoveFirst(seq, x) == IF IndexOf(seq, x) > 0 THEN Splice(seq, IndexOf(seq, x)) ELSE seq

Range(seq) == {seq[i] : i \in 1..Len(seq)}

\* ---------------------------------------------------------------- Init
\* ------------------------------------------------------------ vocabulary
Registered == DOMAIN connections
Live == DOMAIN sessions
Parties(sid) == {sessions[sid].clientSocket, sessions[sid].workerSocket}
SessionsOf(c) == {sid \in Live : c \in Parties(sid)}
SessionIdSet(c) == connections[c].sessionId # NoSid
\* c is bound to the live session sid: its sessionId names it and it is a party.
Bound(c, sid) ==
  /\ c \in Registered
  /\ connections[c].sessionId = sid
  /\ sid \in Live
  /\ c \in Parties(sid)
EmittedTo(msgs, to, event) == \E i \in 1..Len(msgs) : msgs[i].to = to /\ msgs[i].event = event

\* ---------------------------------------------------------------- Init
\* The gateway has started: no peer has connected, the maps and arrays are empty.
InitWith(maxPool, maxQueue, maxTimers) ==
  /\ socketState = [s \in Sockets |-> "new"]
  /\ connections = EmptyMap
  /\ sessions = EmptyMap
  /\ waitingClients = <<>>
  /\ availableWorkers = <<>>
  /\ timers = <<>>
  /\ emitted = <<>>
  /\ lastEvent = Event("none", NoSocket, NoData)
  /\ cap = [pool |-> maxPool, queue |-> maxQueue, timers |-> maxTimers]

InitCore == InitWith(MaxPool, MaxQueue, MaxTimers)
Init == InitWith(RelayMaxPool, RelayMaxQueue, MaxTimers)

\* io.on('connection'): the handlers are attached, no broker state changes.
Connect(s) ==
  /\ socketState[s] = "new"
  /\ socketState' = [socketState EXCEPT ![s] = "open"]
  /\ emitted' = <<>>
  /\ lastEvent' = Event("connection", s, NoData)
  /\ UNCHANGED <<connections, sessions, waitingClients, availableWorkers, timers, cap>>

\* ------------------------------------------------ matchClientWithWorker
\* The state matchClientWithWorker(clientSocket, workerSocket, config) leaves,
\* entered with Registry conns, when Math.random() yields the token sid.
matchClientWithWorker(conns, clientSocket, workerSocket, config, sid) ==
  LET withClient == IF Has(conns, clientSocket) THEN conns
                    ELSE MapSet(conns, clientSocket, ClientConn)
  IN IF ~Has(withClient, workerSocket)
     THEN [connections |-> withClient, sessions |-> sessions, emitted |-> <<>>]
     ELSE LET c1 == [withClient EXCEPT ![clientSocket].sessionId = sid]
              c2 == [c1 EXCEPT ![workerSocket].sessionId = sid]
              c3 == [c2 EXCEPT ![workerSocket].status = "busy"]
          IN [connections |-> c3,
              sessions |-> MapSet(sessions, sid,
                              [clientSocket |-> clientSocket, workerSocket |-> workerSocket]),
              emitted |-> << Msg(workerSocket, "start-session", config),
                             Msg(clientSocket, "session-started", sid) >>]

\* socket.on('register-worker')
RegisterWorker(s) ==
  /\ socketState[s] = "open"
  /\ lastEvent' = Event("register-worker", s, NoData)
  /\ LET conns == MapSet(connections, s, WorkerConn)
     IN IF Len(waitingClients) > 0
        THEN \E sid \in SessionIds :
               LET m == matchClientWithWorker(conns, Head(waitingClients), s, NoData, sid)
               IN /\ connections' = m.connections
                  /\ sessions' = m.sessions
                  /\ emitted' = m.emitted
                  /\ waitingClients' = Tail(waitingClients)
                  /\ UNCHANGED availableWorkers
        ELSE /\ Len(availableWorkers) < cap.pool
             /\ connections' = conns
             /\ availableWorkers' = Append(availableWorkers, s)
             /\ emitted' = <<>>
             /\ UNCHANGED <<sessions, waitingClients>>
  /\ UNCHANGED <<socketState, timers, cap>>

\* socket.on('register-client')
RegisterClient(s) ==
  /\ socketState[s] = "open"
  /\ lastEvent' = Event("register-client", s, NoData)
  /\ connections' = IF Has(connections, s) THEN connections
                    ELSE MapSet(connections, s, ClientConn)
  /\ emitted' = <<>>
  /\ UNCHANGED <<socketState, sessions, waitingClients, availableWorkers, timers, cap>>

\* ScanPool with pop() in place of shift(): the scan runs from the tail.
RECURSIVE ScanPoolFromTail(_, _)
ScanPoolFromTail(pool, conns) ==
  IF Len(pool) = 0 THEN [workerSocket |-> NoSocket, pool |-> pool]
  ELSE LET candidate == pool[Len(pool)]
           rest == SubSeq(pool, 1, Len(pool) - 1)
       IN IF Has(conns, candidate) /\ conns[candidate].status = "idle"
          THEN [workerSocket |-> candidate, pool |-> rest]
          ELSE ScanPoolFromTail(rest, conns)

\* ScanPool without the test of line 72: the head of the Pool is taken as it
\* is.
ScanPoolUnvalidated(pool, conns) ==
  IF Len(pool) = 0 THEN [workerSocket |-> NoSocket, pool |-> pool]
  ELSE [workerSocket |-> Head(pool), pool |-> Tail(pool)]

\* ScanPool with the test of line 72 reduced to conn: a registered worker at
\* the head is taken whatever its status.
RECURSIVE ScanPoolAnyStatus(_, _)
ScanPoolAnyStatus(pool, conns) ==
  IF Len(pool) = 0 THEN [workerSocket |-> NoSocket, pool |-> pool]
  ELSE LET candidate == Head(pool)
       IN IF Has(conns, candidate)
          THEN [workerSocket |-> candidate, pool |-> Tail(pool)]
          ELSE ScanPoolAnyStatus(Tail(pool), conns)

\* The scan of request-session for an available worker: entries are shifted
\* off the head of the Pool until one is registered with status idle.
RECURSIVE ScanPool(_, _)
ScanPool(pool, conns) ==
  IF Len(pool) = 0 THEN [workerSocket |-> NoSocket, pool |-> pool]
  ELSE LET candidate == Head(pool)
       IN IF Has(conns, candidate) /\ conns[candidate].status = "idle"
          THEN [workerSocket |-> candidate, pool |-> Tail(pool)]
          ELSE ScanPool(Tail(pool), conns)

\* socket.on('request-session')
RequestSession(s, config) ==
  /\ socketState[s] = "open"
  /\ lastEvent' = Event("request-session", s, config)
  /\ LET conns == IF Has(connections, s) THEN connections
                  ELSE MapSet(connections, s, ClientConn)
         scan == ScanPool(availableWorkers, conns)
     IN /\ availableWorkers' = scan.pool
        /\ IF scan.workerSocket # NoSocket
           THEN \E sid \in SessionIds :
                  LET m == matchClientWithWorker(conns, s, scan.workerSocket, config, sid)
                  IN /\ connections' = m.connections
                     /\ sessions' = m.sessions
                     /\ emitted' = m.emitted
                     /\ UNCHANGED waitingClients
           ELSE /\ Len(waitingClients) < cap.queue
                /\ connections' = conns
                /\ emitted' = << Msg(s, "status", "waiting") >>
                /\ waitingClients' = Append(waitingClients, s)
                /\ UNCHANGED sessions
  /\ UNCHANGED <<socketState, timers, cap>>

\* SignalTarget with the two ends exchanged.
SignalTargetSwapped(conn, session) ==
  IF conn.type = "client" THEN session.clientSocket ELSE session.workerSocket

\* The socket a relayed signal goes to: the session's other end, by the
\* sender's type.
SignalTarget(conn, session) ==
  IF conn.type = "client" THEN session.workerSocket ELSE session.clientSocket

\* socket.on('signal')
Signal(s, data) ==
  /\ socketState[s] = "open"
  /\ lastEvent' = Event("signal", s, data)
  /\ emitted' =
       IF ~Has(connections, s) \/ connections[s].sessionId = NoSid THEN <<>>
       ELSE IF ~Has(sessions, connections[s].sessionId) THEN <<>>
       ELSE << Msg(SignalTarget(connections[s], sessions[connections[s].sessionId]),
                   "signal", data) >>
  /\ UNCHANGED <<socketState, connections, sessions, waitingClients,
                 availableWorkers, timers, cap>>

\* What browser-event emits for a sender bound to session: input-event to the
\* worker for a client, frame to the client for a worker.
BrowserEventRelay(conn, session, data) ==
  IF conn.type = "client" THEN << Msg(session.workerSocket, "input-event", data) >>
  ELSE IF conn.type = "worker" THEN << Msg(session.clientSocket, "frame", data) >>
  ELSE <<>>

\* BrowserEvent finding the session by a search of the Session Table for the
\* sender, in place of the sender's sessionId.
BrowserEventBySocket(s, data) ==
  /\ socketState[s] = "open"
  /\ lastEvent' = Event("browser-event", s, data)
  /\ emitted' =
       IF ~Has(connections, s) \/ SessionsOf(s) = {} THEN <<>>
       ELSE BrowserEventRelay(connections[s],
                              sessions[CHOOSE sid \in SessionsOf(s) : TRUE], data)
  /\ UNCHANGED <<socketState, connections, sessions, waitingClients,
                 availableWorkers, timers, cap>>

\* socket.on('browser-event')
BrowserEvent(s, data) ==
  /\ socketState[s] = "open"
  /\ lastEvent' = Event("browser-event", s, data)
  /\ emitted' =
       IF ~Has(connections, s) \/ connections[s].sessionId = NoSid THEN <<>>
       ELSE IF ~Has(sessions, connections[s].sessionId) THEN <<>>
       ELSE BrowserEventRelay(connections[s], sessions[connections[s].sessionId], data)
  /\ UNCHANGED <<socketState, connections, sessions, waitingClients,
                 availableWorkers, timers, cap>>

\* terminateSession of App.jsx emits stop-session to the gateway, which
\* attaches no handler for it.
StopSession(s) ==
  /\ socketState[s] = "open"
  /\ lastEvent' = Event("stop-session", s, NoData)
  /\ emitted' = <<>>
  /\ UNCHANGED <<socketState, connections, sessions, waitingClients,
                 availableWorkers, timers, cap>>

\* socket.on('disconnect'), worker branch
DisconnectWorker(s, conn) ==
  /\ availableWorkers' = RemoveFirst(availableWorkers, s)
  /\ IF conn.sessionId # NoSid
     THEN /\ emitted' = IF Has(sessions, conn.sessionId)
                        THEN << Msg(sessions[conn.sessionId].clientSocket,
                                    "worker-disconnected", NoData) >>
                        ELSE <<>>
          /\ sessions' = MapDelete(sessions, conn.sessionId)
     ELSE /\ emitted' = <<>>
          /\ UNCHANGED sessions
  /\ UNCHANGED <<waitingClients, timers>>

\* socket.on('disconnect'), client branch
DisconnectClient(s, conn) ==
  /\ IF conn.sessionId # NoSid
     THEN /\ IF Has(sessions, conn.sessionId)
             THEN /\ Len(timers) < cap.timers
                  /\ emitted' = << Msg(sessions[conn.sessionId].workerSocket,
                                       "stop-session", NoData) >>
                  /\ timers' = Append(timers, sessions[conn.sessionId].workerSocket)
             ELSE /\ emitted' = <<>>
                  /\ UNCHANGED timers
          /\ sessions' = MapDelete(sessions, conn.sessionId)
     ELSE /\ emitted' = <<>>
          /\ UNCHANGED <<sessions, timers>>
  /\ waitingClients' = RemoveFirst(waitingClients, s)
  /\ UNCHANGED availableWorkers

\* socket.on('disconnect')
Disconnect(s) ==
  /\ socketState[s] = "open"
  /\ socketState' = [socketState EXCEPT ![s] = "closed"]
  /\ lastEvent' = Event("disconnect", s, NoData)
  /\ UNCHANGED cap
  /\ IF ~Has(connections, s)
     THEN /\ emitted' = <<>>
          /\ UNCHANGED <<connections, sessions, waitingClients, availableWorkers, timers>>
     ELSE /\ IF connections[s].type = "worker"
             THEN DisconnectWorker(s, connections[s])
             ELSE DisconnectClient(s, connections[s])
          /\ connections' = MapDelete(connections, s)

\* TimerFire without the connections.has check: the worker is put back idle
\* whether or not it is still registered.
TimerFireUnchecked ==
  /\ Len(timers) > 0
  /\ timers' = Tail(timers)
  /\ lastEvent' = Event("timer", Head(timers), NoData)
  /\ emitted' = <<>>
  /\ Len(availableWorkers) < cap.pool
  /\ connections' = MapSet(connections, Head(timers), WorkerConn)
  /\ availableWorkers' = Append(availableWorkers, Head(timers))
  /\ UNCHANGED <<socketState, sessions, waitingClients, cap>>

\* TimerFire without line 153: the worker is put back idle with the sessionId
\* of the session that ended.
TimerFireKeepsSessionId ==
  /\ Len(timers) > 0
  /\ timers' = Tail(timers)
  /\ lastEvent' = Event("timer", Head(timers), NoData)
  /\ emitted' = <<>>
  /\ IF Has(connections, Head(timers))
     THEN /\ Len(availableWorkers) < cap.pool
          /\ connections' = [connections EXCEPT ![Head(timers)].status = "idle"]
          /\ availableWorkers' = Append(availableWorkers, Head(timers))
     ELSE UNCHANGED <<connections, availableWorkers>>
  /\ UNCHANGED <<socketState, sessions, waitingClients, cap>>

\* The setTimeout callback scheduled by a client's disconnect; callbacks of one
\* delay run in the order they were scheduled.
TimerFire ==
  /\ Len(timers) > 0
  /\ timers' = Tail(timers)
  /\ lastEvent' = Event("timer", Head(timers), NoData)
  /\ emitted' = <<>>
  /\ IF Has(connections, Head(timers))
     THEN /\ Len(availableWorkers) < cap.pool
          /\ connections' = [connections EXCEPT ![Head(timers)].status = "idle",
                                                ![Head(timers)].sessionId = NoSid]
          /\ availableWorkers' = Append(availableWorkers, Head(timers))
     ELSE UNCHANGED <<connections, availableWorkers>>
  /\ UNCHANGED <<socketState, sessions, waitingClients, cap>>

\* The events that touch the Registry, the Pool, the Queue, the Session Table
\* or the timers.
NextCore ==
  \/ \E s \in Sockets : Connect(s)
  \/ \E s \in WorkerSockets : RegisterWorker(s)
  \/ \E s \in ClientSockets : RegisterClient(s)
  \/ \E s \in ClientSockets, config \in Configs : RequestSession(s, config)
  \/ \E s \in Sockets : Disconnect(s)
  \/ TimerFire

\* Every event of the gateway.
Next ==
  \/ \E s \in Sockets : Connect(s)
  \/ \E s \in WorkerSockets : RegisterWorker(s)
  \/ \E s \in ClientSockets : RegisterClient(s)
  \/ \E s \in ClientSockets, config \in Configs : RequestSession(s, config)
  \/ \E s \in Sockets, data \in Payloads : Signal(s, data)
  \/ \E s \in Sockets, data \in Payloads : BrowserEvent(s, data)
  \/ \E s \in ClientSockets : StopSession(s)
  \/ \E s \in Sockets : Disconnect(s)
  \/ TimerFire

\* Every event, under the short Pool and Queue.
Spec == Init /\ [][Next]_vars

\* The gateway without the relayed events, which change none of connections,
\* sessions, waitingClients, availableWorkers and timers, under the long Pool
\* and Queue.
SpecCore == InitCore /\ [][NextCore]_vars

\* ------------------------------------- matchClientWithWorker on its own
\* A call matchClientWithWorker(clientSocket, workerSocket, config) for an
\* open client socket and any worker socket that has connected, in a state
\* the events above have left.  The two call sites pass a
\* registered worker only; the function itself also provides for a worker
\* that is missing from connections (lines 176-180).
CallMatchClientWithWorker(clientSocket, workerSocket, config) ==
  /\ socketState[clientSocket] = "open"
  /\ socketState[workerSocket] # "new"
  /\ lastEvent' = Event("matchClientWithWorker", clientSocket, workerSocket)
  /\ \E sid \in SessionIds :
       LET m == matchClientWithWorker(connections, clientSocket, workerSocket, config, sid)
       IN /\ connections' = m.connections
          /\ sessions' = m.sessions
          /\ emitted' = m.emitted
  /\ UNCHANGED <<socketState, waitingClients, availableWorkers, timers, cap>>

NextPair ==
  \/ NextCore
  \/ \E c \in ClientSockets, w \in WorkerSockets, config \in Configs :
       CallMatchClientWithWorker(c, w, config)

\* The function matchClientWithWorker over the arguments it accepts, under
\* the short Pool and Queue.
SpecPair == Init /\ [][NextPair]_vars

\* ---------------------------------------------------------------- claims
\* C1: every registered connection has a sessionId if and only if it is a party
\* of exactly one Session Table entry, the one its sessionId names.
C1_SessionIdIffInOneSession ==
  \A c \in Registered :
    SessionIdSet(c) <=> SessionsOf(c) = {connections[c].sessionId}

\* C2: no two entries of the Session Table share a connection, and the two
\* parties of an entry are distinct connections.
C2_SessionsShareNoConnection ==
  /\ \A sid \in Live : sessions[sid].clientSocket # sessions[sid].workerSocket
  /\ \A s1, s2 \in Live : s1 # s2 => Parties(s1) \cap Parties(s2) = {}

\* The two emits of a pairing: start-session to the worker, then
\* session-started to the client.
Pairing(msgs) ==
  /\ Len(msgs) = 2
  /\ msgs[1].event = "start-session"
  /\ msgs[2].event = "session-started"
\* msgs are the emits of a pairing of client c with worker w, and table holds
\* the session under the id sent to the client.
PairedAs(msgs, table, c, w) ==
  /\ Pairing(msgs)
  /\ msgs[1].to = w
  /\ msgs[2].to = c
  /\ msgs[2].data \in DOMAIN table
  /\ table[msgs[2].data] = [clientSocket |-> c, workerSocket |-> w]
\* The Pool positions holding a registered idle provider.
IdleIdx == {i \in 1..Len(availableWorkers) :
              /\ availableWorkers[i] \in Registered
              /\ connections[availableWorkers[i]].status = "idle"}
FirstIdle == CHOOSE i \in IdleIdx : \A j \in IdleIdx : i <= j
\* seq, and seq with one element taken out.
WithoutOne(seq) ==
  {seq} \cup {SubSeq(seq, 1, i - 1) \o SubSeq(seq, i + 1, Len(seq)) : i \in 1..Len(seq)}

\* C3: matching is FIFO on both sides.  A request-session is paired with the
\* registered idle provider nearest the head of the Pool and leaves the Pool
\* entries behind it in place; with no such provider the requester joins the
\* tail of the Queue.  A register-worker is paired with the head of the Queue
\* and leaves the rest of the Queue in place; with an empty Queue the provider
\* joins the tail of the Pool.  The timer only appends to the Pool, and a
\* disconnect only takes one entry out, so both keep their order.
C3_FifoStep ==
  /\ lastEvent'.name = "request-session" =>
       IF IdleIdx = {}
       THEN /\ ~Pairing(emitted')
            /\ waitingClients' = Append(waitingClients, lastEvent'.socket)
       ELSE /\ PairedAs(emitted', sessions', lastEvent'.socket, availableWorkers[FirstIdle])
            /\ availableWorkers' =
                 SubSeq(availableWorkers, FirstIdle + 1, Len(availableWorkers))
            /\ waitingClients' = waitingClients
  /\ lastEvent'.name = "register-worker" =>
       IF waitingClients = <<>>
       THEN /\ ~Pairing(emitted')
            /\ availableWorkers' = Append(availableWorkers, lastEvent'.socket)
            /\ waitingClients' = waitingClients
       ELSE /\ PairedAs(emitted', sessions', Head(waitingClients), lastEvent'.socket)
            /\ waitingClients' = Tail(waitingClients)
            /\ availableWorkers' = availableWorkers
  /\ lastEvent'.name = "timer" =>
       /\ availableWorkers' \in {availableWorkers, Append(availableWorkers, lastEvent'.socket)}
       /\ waitingClients' = waitingClients
  /\ lastEvent'.name = "disconnect" =>
       /\ availableWorkers' \in WithoutOne(availableWorkers)
       /\ waitingClients' \in WithoutOne(waitingClients)
  /\ lastEvent'.name \in {"connection", "register-client"} =>
       /\ availableWorkers' = availableWorkers
       /\ waitingClients' = waitingClients
C3_FifoMatching == [][C3_FifoStep]_vars
\* A request-session has just been paired while another registered idle
\* provider was behind the chosen one in the Pool.
C3_Witness ==
  /\ lastEvent.name = "request-session"
  /\ Pairing(emitted)
  /\ IdleIdx # {}
  /\ emitted[1].to \notin Range(availableWorkers)

\* C4: a register-worker that finds the Queue non-empty removes the head
\* requester from the Queue and binds it to that provider in a new session
\* within the event, leaves the provider busy, appends nothing to the Pool, and
\* the provider is not in the Pool in the state the event leaves.
C4_BypassStep ==
  (lastEvent'.name = "register-worker" /\ waitingClients # <<>>) =>
    /\ PairedAs(emitted', sessions', Head(waitingClients), lastEvent'.socket)
    /\ waitingClients' = Tail(waitingClients)
    /\ connections'[lastEvent'.socket].status = "busy"
    /\ availableWorkers' = availableWorkers
    /\ lastEvent'.socket \notin Range(availableWorkers')
C4_BypassNeverInPool == [][C4_BypassStep]_vars

\* C5: the disconnect of a provider bound to session S removes S from the
\* Session Table, sends worker-disconnected to the requester of S, schedules no
\* timer, and leaves the provider neither in the Pool nor in the Registry.
C5_TeardownStep ==
  \A sid \in SessionIds :
    (/\ lastEvent'.name = "disconnect"
     /\ Bound(lastEvent'.socket, sid)
     /\ sessions[sid].workerSocket = lastEvent'.socket) =>
      /\ sid \notin DOMAIN sessions'
      /\ emitted' = << Msg(sessions[sid].clientSocket, "worker-disconnected", NoData) >>
      /\ timers' = timers
      /\ lastEvent'.socket \notin Range(availableWorkers')
      /\ lastEvent'.socket \notin DOMAIN connections'
C5_TeardownCascade == [][C5_TeardownStep]_vars

\* C6: the disconnect of a requester bound to session S sends stop-session to
\* the provider of S and removes S within the event, leaving the provider busy
\* and out of the Pool; while its reclaim timer is pending a provider turns
\* idle, loses its sessionId or enters the Pool by no event but the firing of
\* that timer; and the timer, finding the provider registered, leaves it idle
\* with no sessionId at the tail of the Pool.
C6_ReclaimStep ==
  /\ \A sid \in SessionIds :
       (/\ lastEvent'.name = "disconnect"
        /\ Bound(lastEvent'.socket, sid)
        /\ sessions[sid].clientSocket = lastEvent'.socket) =>
         LET provider == sessions[sid].workerSocket
         IN /\ emitted' = << Msg(provider, "stop-session", NoData) >>
            /\ sid \notin DOMAIN sessions'
            /\ provider \in Range(timers')
            /\ provider \notin Range(availableWorkers')
            /\ provider \in DOMAIN connections' =>
                 /\ connections'[provider].status = "busy"
                 /\ connections'[provider].sessionId # NoSid
  /\ \A w \in Range(timers) \cap Registered \cap DOMAIN connections' :
       (\/ connections'[w].status # connections[w].status
        \/ connections'[w].sessionId # connections[w].sessionId
        \/ Len(SelectSeq(availableWorkers', LAMBDA x : x = w))
             > Len(SelectSeq(availableWorkers, LAMBDA x : x = w))) =>
         (lastEvent'.name = "timer" /\ lastEvent'.socket = w)
  /\ (lastEvent'.name = "timer" /\ lastEvent'.socket \in Registered) =>
       /\ connections'[lastEvent'.socket].status = "idle"
       /\ connections'[lastEvent'.socket].sessionId = NoSid
       /\ availableWorkers' = Append(availableWorkers, lastEvent'.socket)
C6_DelayedReclaim == [][C6_ReclaimStep]_vars

\* C7: a reclaim timer that fires after its provider disconnected changes
\* nothing: the Registry, the Pool, the Queue and the Session Table are as
\* before and nothing is emitted.
C7_AbandonedStep ==
  (lastEvent'.name = "timer" /\ socketState[lastEvent'.socket] = "closed") =>
    /\ connections' = connections
    /\ lastEvent'.socket \notin DOMAIN connections'
    /\ availableWorkers' = availableWorkers
    /\ waitingClients' = waitingClients
    /\ sessions' = sessions
    /\ emitted' = <<>>
C7_AbandonedReclaim == [][C7_AbandonedStep]_vars
\* A timer has just fired for a provider that had disconnected.
C7_Witness ==
  /\ lastEvent.name = "timer"
  /\ socketState[lastEvent.socket] = "closed"

\* C8: a register event from a connection already in the Registry leaves that
\* connection's Registry entry as it was.
C8_IdempotentStep ==
  (/\ lastEvent'.name \in {"register-worker", "register-client"}
   /\ lastEvent'.socket \in Registered) =>
    /\ lastEvent'.socket \in DOMAIN connections'
    /\ connections'[lastEvent'.socket] = connections[lastEvent'.socket]
C8_RegistrationIdempotent == [][C8_IdempotentStep]_vars

\* The relayed events, and the name a relay goes out under.
RelayEvents == {"signal", "browser-event"}
RelayedAs(name, fromClient) ==
  IF name = "signal" THEN "signal" ELSE IF fromClient THEN "input-event" ELSE "frame"
\* c is unregistered, has no sessionId, or its sessionId names no live session.
Orphan(c) ==
  \/ c \notin Registered
  \/ connections[c].sessionId = NoSid
  \/ connections[c].sessionId \notin Live
BrokerUnchanged ==
  UNCHANGED <<connections, sessions, waitingClients, availableWorkers, timers>>

\* C9: a signal or browser-event from a connection that is unregistered, has
\* no sessionId, or whose sessionId names no live session, emits nothing and
\* leaves the Registry, the Pool, the Queue and the Session Table as they were.
C9_IsolationStep ==
  (lastEvent'.name \in RelayEvents /\ Orphan(lastEvent'.socket)) =>
    /\ emitted' = <<>>
    /\ BrokerUnchanged
C9_RelayIsolation == [][C9_IsolationStep]_vars
\* A registered connection whose sessionId names a session no longer in the
\* table has just sent a relayed event, and nothing was emitted.
C9_Witness ==
  /\ lastEvent.name \in RelayEvents
  /\ lastEvent.socket \in Registered
  /\ connections[lastEvent.socket].sessionId # NoSid
  /\ connections[lastEvent.socket].sessionId \notin Live
  /\ emitted = <<>>

\* C10: a signal or browser-event from a connection bound to a live session
\* emits exactly one message, to the other party of that session, carrying the
\* payload as sent (a requester's to the provider, a provider's to the
\* requester), and leaves the Registry, the Pool, the Queue and the Session
\* Table as they were.
C10_RoutingStep ==
  \A sid \in SessionIds :
    (lastEvent'.name \in RelayEvents /\ Bound(lastEvent'.socket, sid)) =>
      LET fromClient == lastEvent'.socket = sessions[sid].clientSocket
          partner == IF fromClient THEN sessions[sid].workerSocket
                     ELSE sessions[sid].clientSocket
      IN /\ emitted' = << Msg(partner, RelayedAs(lastEvent'.name, fromClient),
                              lastEvent'.data) >>
         /\ partner \in Parties(sid) \ {lastEvent'.socket}
         /\ BrokerUnchanged
C10_RelayRouting == [][C10_RoutingStep]_vars
\* A provider bound to a live session has just sent a browser-event, which
\* went to the requester of that session as a frame.
C10_Witness ==
  /\ lastEvent.name = "browser-event"
  /\ lastEvent.socket \in WorkerSockets
  /\ \E sid \in Live :
       /\ Bound(lastEvent.socket, sid)
       /\ emitted = << Msg(sessions[sid].clientSocket, "frame", lastEvent.data) >>

\* C11: a stop-session sent to the gateway by a requester bound to the live
\* session S, the requester staying connected, removes S from the Session
\* Table within the event, so that the provider of S is no longer a party of
\* a live session S.
C11_TerminationStep ==
  \A sid \in SessionIds :
    (/\ lastEvent'.name = "stop-session"
     /\ Bound(lastEvent'.socket, sid)
     /\ sessions[sid].clientSocket = lastEvent'.socket) =>
      /\ sid \notin DOMAIN sessions'
      /\ sessions[sid].workerSocket \in DOMAIN connections' =>
           connections'[sessions[sid].workerSocket].sessionId # sid
C11_ExplicitTermination == [][C11_TerminationStep]_vars

\* C12: a pairing whose provider is missing from the Registry when
\* matchClientWithWorker commits it creates no session and emits no pairing,
\* and leaves the requester it was called for in the Requester Queue.
C12_RaceStep ==
  (/\ lastEvent'.name = "matchClientWithWorker"
   /\ lastEvent'.data \notin Registered) =>
    /\ sessions' = sessions
    /\ ~Pairing(emitted')
    /\ lastEvent'.socket \in Range(waitingClients')
C13_BusyIffSessionId ==
  \A w \in Registered :
    connections[w].type = "worker" =>
      /\ connections[w].status = "busy" <=> SessionIdSet(w)
      /\ connections[w].status = "idle" <=> ~SessionIdSet(w)
\* A provider is in its grace interval: its requester has left, its timer is
\* pending, and it is still busy under the sessionId of the session that ended.
C13_Witness ==
  \E w \in Range(timers) \cap Registered :
    /\ connections[w].status = "busy"
    /\ SessionIdSet(w)
    /\ connections[w].sessionId \notin Live

\* C14: a requester that has disconnected appears nowhere in the Requester
\* Queue, whatever it sent before.
C14_QueueCancellation ==
  \A c \in Sockets : socketState[c] = "closed" => c \notin Range(waitingClients)

\* C15: the id a pairing gives its session is the id of no session in the
\* Session Table at that moment, and of no session that has ended.  Every
\* sessionId a connection carries is the id of a session that is live or has
\* ended, so the id of a new session is also carried by no connection.
C15_FreshIdStep ==
  Pairing(emitted') =>
    /\ emitted'[2].data \notin DOMAIN sessions
    /\ \A c \in Registered : connections[c].sessionId # emitted'[2].data
C15_SessionIdsUnique == [][C15_FreshIdStep]_vars

\* C16: a request-session pairs the requester with a provider that is
\* registered and idle when the event arrives and that no registered idle
\* provider precedes in the Pool, and removes from the Pool that entry and
\* every entry ahead of it; when the Pool holds no registered idle provider
\* the Pool ends empty, no session is created, the requester is appended to
\* the Queue and is sent the waiting status, and nothing else is emitted.
C16_ScanStep ==
  lastEvent'.name = "request-session" =>
    IF \E i \in 1..Len(availableWorkers) :
         /\ availableWorkers[i] \in Registered
         /\ connections[availableWorkers[i]].status = "idle"
    THEN /\ Pairing(emitted')
         /\ PairedAs(emitted', sessions', lastEvent'.socket, emitted'[1].to)
         /\ emitted'[1].to \in Registered
         /\ connections[emitted'[1].to].status = "idle"
         /\ \E i \in 1..Len(availableWorkers) :
              /\ availableWorkers[i] = emitted'[1].to
              /\ \A j \in 1..(i - 1) :
                   \/ availableWorkers[j] \notin Registered
                   \/ connections[availableWorkers[j]].status # "idle"
              /\ availableWorkers' = SubSeq(availableWorkers, i + 1, Len(availableWorkers))
         /\ waitingClients' = waitingClients
    ELSE /\ availableWorkers' = <<>>
         /\ sessions' = sessions
         /\ waitingClients' = Append(waitingClients, lastEvent'.socket)
         /\ emitted' = << Msg(lastEvent'.socket, "status", "waiting") >>
C16_LazyValidation == [][C16_ScanStep]_vars
\* A request-session has just been paired, and the entry now at the head of
\* the Pool is stale: its provider is unregistered or busy.
C16_Witness ==
  /\ lastEvent.name = "request-session"
  /\ Pairing(emitted)
  /\ availableWorkers # <<>>
  /\ \/ Head(availableWorkers) \notin Registered
     \/ connections[Head(availableWorkers)].status # "idle"

\* C17: every pairing takes an id that is the id of no live session, sets it
\* as the sessionId of both connections, leaves the provider busy, inserts the
\* session of the two into the Session Table under that id, sends the
\* provider start-session with the config its requester supplied (a config of
\* some request-session in every case, and the config of this event when a
\* request-session is paired at once), and sends the requester
\* session-started with the id.
C17_PairingStep ==
  Pairing(emitted') =>
    LET w == emitted'[1].to
        c == emitted'[2].to
        sid == emitted'[2].data
    IN /\ sid \notin DOMAIN sessions
       /\ c \in DOMAIN connections' /\ connections'[c].sessionId = sid
       /\ w \in DOMAIN connections' /\ connections'[w].sessionId = sid
       /\ connections'[w].status = "busy"
       /\ sid \in DOMAIN sessions'
       /\ sessions'[sid] = [clientSocket |-> c, workerSocket |-> w]
       /\ emitted'[1].data \in Configs
       /\ lastEvent'.name = "request-session" => emitted'[1].data = lastEvent'.data
C17_PairingPostconditions == [][C17_PairingStep]_vars

\* C18: in every reachable state, if the Requester Queue is non-empty then no
\* entry of the Pool is a registered provider with status idle.
C18_WorkConservation ==
  waitingClients # <<>> => IdleIdx = {}

\* C19: a reclaim timer that resets its provider to idle or appends it to the
\* Pool fires only when that provider is a party of no live session.
C19_RebindStep ==
  (/\ lastEvent'.name = "timer"
   /\ \/ connections' # connections
      \/ availableWorkers' # availableWorkers) =>
    SessionsOf(lastEvent'.socket) = {}
C19_ReclaimNotRebound == [][C19_RebindStep]_vars

\* C20: in every reachable state both parties of every Session Table entry are
\* in the Registry.
C20_NoDanglingSessions ==
  \A sid \in Live : Parties(sid) \subseteq Registered

\* C21: a connection that has disconnected is not put back in the Registry,
\* is made a party of no new session, and is sent no message: every session
\* it is a party of after an event it was a party of before, and no emit of
\* the event goes to it.
C21_DepartedStep ==
  \A s \in Sockets :
    socketState[s] = "closed" =>
      /\ s \notin DOMAIN connections'
      /\ \A i \in 1..Len(emitted') : emitted'[i].to # s
      /\ \A sid \in DOMAIN sessions' :
           s \in {sessions'[sid].clientSocket, sessions'[sid].workerSocket} =>
             /\ sid \in DOMAIN sessions
             /\ sessions[sid] = sessions'[sid]
C21_NoPairingWithDeparted == [][C21_DepartedStep]_vars

\* C22: matchClientWithWorker never returns at 'disappeared before
\* assignment'.  A handler that took that return would end with nothing
\* emitted and the requester not enqueued; so every register-worker that finds
\* the Queue non-empty, and every request-session that sends no waiting
\* status, ends in a pairing with a provider that is in the Registry.
C22_AssignStep ==
  /\ (lastEvent'.name = "register-worker" /\ waitingClients # <<>>) =>
       /\ Pairing(emitted')
       /\ emitted'[1].to = lastEvent'.socket
       /\ emitted'[1].to \in DOMAIN connections'
  /\ lastEvent'.name = "request-session" =>
       \/ /\ Pairing(emitted')
          /\ emitted'[1].to \in Registered
          /\ emitted'[1].to \in DOMAIN connections'
       \/ /\ emitted' = << Msg(lastEvent'.socket, "status", "waiting") >>
          /\ waitingClients' = Append(waitingClients, lastEvent'.socket)
C22_WorkerNeverMissing == [][C22_AssignStep]_vars
\* A pairing has just been made while the Pool holds the entry of a provider
\* that has disconnected.
C22_Witness ==
  /\ lastEvent.name \in {"register-worker", "request-session"}
  /\ Pairing(emitted)
  /\ \E w \in Range(availableWorkers) : socketState[w] = "closed" /\ w \notin Registered
====
